---- MODULE Spec2Model ----
(***************************************************************************)
(* Neon Lane (src/src/App.tsx): the React component App, its frame loop,   *)
(* its input handlers and restart.                                         *)
(*                                                                         *)
(* React semantics that the model keeps:                                   *)
(*  - running, playerLane, score and best are useState values.  Every      *)
(*    render of App creates new functions loop, draw and restart that      *)
(*    close over the values of THAT render.  A setX call changes the       *)
(*    state and causes a new render; it never changes what an existing     *)
(*    closure sees.                                                        *)
(*  - the three useEffect calls have an empty dependency list, so the      *)
(*    listeners and the first requestAnimationFrame(loop) use the          *)
(*    functions of the mount render.  loop reschedules itself, i.e. the    *)
(*    loop of the same render.  Only the Restart button (onClick={restart})*)
(*    schedules the loop of the render that is current at the click.       *)
(*  - the useRef values (obstaclesRef, speedRef, ...) are shared by all    *)
(*    renders and read live.                                               *)
(*                                                                         *)
(* Units (fixed point):                                                    *)
(*   time      ms          (elapsedRef, spawnTimerRef, dt)                 *)
(*   interval  microsec    (spawnIntervalRef, smoothing rounded down)      *)
(*   speed     milli-px/s  (speedRef)                                      *)
(*   length    micro-px    (y, h, w of an obstacle); speed*dt is exact     *)
(*                                                                         *)
(* Not modelled: unmounting the component (the effect cleanups).           *)
(***************************************************************************)
EXTENDS Integers, Sequences, FiniteSets, TLC

\* ---------------------------------------------------------------- constants
CANVAS_W == 360
CANVAS_H == 640
LANES == 3
PLAYER_R == 14
PLAYER_Y == CANVAS_H - 80
BASE_SPEED == 140
SPEED_GROWTH == 6
\* 1.0 s, in ms
BASE_SPAWN == 1000
\* 0.35 s, in ms
MIN_SPAWN == 350
\* 0.04 s of interval per s of elapsed time = 40 microsec per ms
SPAWN_DECAY == 40
\* Math.min(0.05, ...), in ms
DT_CAP == 50

\* micro-px per px
PX == 1000 * 1000

\* ------------------------------------------------------------------- bounds
\* a run is simulated up to this elapsed time (ms)
MaxElapsed == 2100
\* the same, for the specification of whole runs
MaxElapsedEndgame == 4600
\* in that specification the player is idle until this elapsed time (ms)
InputsFrom == 4400
\* the same, for the ten-second scenario
MaxElapsedScenario == 10000
\* the same, for the specification with frames of different lengths
MaxElapsedFrames == 500
\* a long run, past the time (16.25 s) at which the target interval stops falling
MaxElapsedLong == 17000

\* now - loop._last (ms) of a frame: a regular slow frame, a backgrounded tab
Gaps == {50, 1000}
\* the same with a 60 Hz frame (16 ms) and a frame just over the cap
FineGaps == {16, 60, 1000}
\* 26 + Math.random() * 20, sampled (px): both ends of the range
Heights == {26, 45}
\* the same, one value, for the specification of whole runs
EndgameHeights == {30}
\* Math.floor(Math.random() * LANES)
RandomLanes == 0 .. (LANES - 1)

\* ----------------------------------------------------------- JS primitives
\* the number NaN (a value outside the range of every parsed integer)
NaN == 0 - 1000000
NULL == <<"null">>

MinOf(a, b) == IF a < b THEN a ELSE b
MaxOf(a, b) == IF a > b THEN a ELSE b

\* Math.max of two numbers: NaN if either is NaN
MathMax(a, b) == IF a = NaN \/ b = NaN THEN NaN ELSE MaxOf(a, b)

\* clamp without its lower bound
clampUpperOnly(n, min, max) == MinOf(max, n)

clamp(n, min, max) == MaxOf(min, MinOf(max, n))

Digits == <<"0", "1", "2", "3", "4", "5", "6", "7", "8", "9">>
IsDigit(c) == \E i \in 1 .. 10 : Digits[i] = c
DigitVal(c) == (CHOOSE i \in 1 .. 10 : Digits[i] = c) - 1

RECURSIVE SkipSpaces(_)
SkipSpaces(s) == IF s # <<>> /\ Head(s) = " " THEN SkipSpaces(Tail(s)) ELSE s

RECURSIVE DigitPrefix(_, _)
\* value of the leading digits of s, acc is the value read so far
DigitPrefix(s, acc) ==
  IF s # <<>> /\ IsDigit(Head(s))
  THEN DigitPrefix(Tail(s), 10 * acc + DigitVal(Head(s)))
  ELSE acc

\* parseInt(v) for a string v given as a sequence of characters
parseInt(v) ==
  LET s == SkipSpaces(v)
      neg == s # <<>> /\ Head(s) = "-"
      t == IF s # <<>> /\ Head(s) \in {"-", "+"} THEN Tail(s) ELSE s
  IN IF t = <<>> \/ ~IsDigit(Head(t)) THEN NaN
     ELSE IF neg THEN 0 - DigitPrefix(t, 0) ELSE DigitPrefix(t, 0)

RECURSIVE NatString(_)
NatString(n) ==
  IF n < 10 THEN <<Digits[n + 1]>>
  ELSE NatString(n \div 10) \o <<Digits[(n % 10) + 1]>>

\* String(n)
String(n) ==
  IF n = NaN THEN <<"N", "a", "N">>
  ELSE IF n < 0 THEN <<"-">> \o NatString(0 - n) ELSE NatString(n)

\* useState initialiser of best: v ? parseInt(v) : 0
InitialBest(v) == IF v = NULL \/ v = <<>> THEN 0 ELSE parseInt(v)

\* -------------------------------------------------------------------- state
VARIABLES
  running, playerLane, score, best,   \* useState values of the current render
  storage,                            \* localStorage["neonlane_best"]
  obstaclesRef, speedRef, spawnTimerRef, spawnIntervalRef, elapsedRef, deadRef,
  rafRef,                             \* handle of the last requested frame
  rafQueue,                           \* the browser's pending frame callbacks
  mountRender,                        \* the state values of the mount render
  curFn,                              \* which loop function the current render has
  lastSet,                            \* loop functions whose _last is set
  canvas,                             \* what the last draw put on the canvas
  spawnedCount,                       \* obstacles spawned since the last restart
  hist                                \* the last event and the state before it

vars == <<running, playerLane, score, best, storage, obstaclesRef, speedRef,
          spawnTimerRef, spawnIntervalRef, elapsedRef, deadRef, rafRef,
          rafQueue, mountRender, curFn, lastSet, canvas, spawnedCount, hist>>

\* the state values a render closes over
Render == [running |-> running, playerLane |-> playerLane,
           score |-> score, best |-> best]

\* the record of the event ev and of the state it started from
Before(ev) == [ev |-> ev, lane |-> playerLane, running |-> running,
               score |-> score, best |-> best, dead |-> deadRef]

\* ------------------------------------------------------------ frame requests
RECURSIVE FreeHandle(_, _)
\* the least positive handle not pending in q
FreeHandle(q, n) ==
  IF \E i \in 1 .. Len(q) : q[i].id = n THEN FreeHandle(q, n + 1) ELSE n

\* requestAnimationFrame(loop) for the loop function fn with closure cl
requestAnimationFrame(q, fn, cl) ==
  Append(q, [id |-> FreeHandle(q, 1), fn |-> fn, cl |-> cl])

\* a cancel that leaves the callback registered
cancelNothing(q, id) == q

\* cancelAnimationFrame(id); rafRef = 0 stands for null
cancelAnimationFrame(q, id) == SelectSeq(q, LAMBDA c : c.id # id)

\* ----------------------------------------------------------- initial state
InitWith(stored) ==
  /\ storage \in stored
  /\ running = TRUE
  /\ playerLane = 1
  /\ score = 0
  /\ best = InitialBest(storage)
  /\ obstaclesRef = <<>>
  /\ speedRef = 1000 * BASE_SPEED
  /\ spawnTimerRef = 0
  /\ spawnIntervalRef = 1000 * BASE_SPAWN
  /\ elapsedRef = 0
  /\ deadRef = FALSE
  /\ mountRender = [running |-> TRUE, playerLane |-> 1, score |-> 0,
                    best |-> InitialBest(storage)]
  /\ rafQueue = requestAnimationFrame(<<>>, "mount", mountRender)
  /\ rafRef = 1
  /\ curFn = "mount"
  /\ lastSet = {}
  /\ canvas = [score |-> 0, best |-> InitialBest(storage), lane |-> 1,
               overlay |-> "blank"]
  /\ spawnedCount = 0
  /\ hist = [ev |-> "mount", lane |-> 1, running |-> TRUE, score |-> 0,
             best |-> InitialBest(storage), dead |-> FALSE]

Init == InitWith({NULL})

\* what localStorage may hold under neonlane_best when the page loads:
\* nothing, an empty string, a number, text that is not a number
StoredValues == {NULL, <<>>, <<"7">>, <<"a", "b", "c">>}

\* ------------------------------------------------------------------ renders
\* React renders again when a state value changed: the current render then has
\* functions that nothing has scheduled yet ("fresh"); otherwise the current
\* render keeps the loop function fn
Commit(fn) ==
  curFn' = IF <<running', playerLane', score', best'>>
              # <<running, playerLane, score, best>>
           THEN "fresh" ELSE fn

\* ------------------------------------------------------------------ restart
\* restart() of the render whose loop function is fn and closes over cl
restart(fn, cl) ==
  /\ obstaclesRef' = <<>>
  /\ speedRef' = 1000 * BASE_SPEED
  /\ spawnIntervalRef' = 1000 * BASE_SPAWN
  /\ spawnTimerRef' = 0
  /\ elapsedRef' = 0
  /\ deadRef' = FALSE
  /\ score' = 0
  /\ running' = TRUE
  /\ LET q == IF rafRef # 0 THEN cancelAnimationFrame(rafQueue, rafRef)
              ELSE rafQueue
     IN /\ rafQueue' = requestAnimationFrame(q, fn, cl)
        /\ rafRef' = FreeHandle(q, 1)
  /\ spawnedCount' = 0

\* what every handler other than restart leaves alone
NoRestart ==
  UNCHANGED <<obstaclesRef, speedRef, spawnIntervalRef, spawnTimerRef,
              elapsedRef, deadRef, score, running, rafQueue, rafRef,
              spawnedCount>>

\* ------------------------------------------------------------------- inputs
Sides == {"left", "right"}
Keys == {"ArrowLeft", "A", "ArrowRight", "d", "r", "p", "x"}

toLowerCase(k) == IF k = "A" THEN "a" ELSE k

\* a lane change of two lanes
LaneAfterTwo(side) ==
  IF side = "left" THEN clamp(playerLane - 2, 0, LANES - 1)
  ELSE clamp(playerLane + 2, 0, LANES - 1)

\* setPlayerLane((l) => clamp(l - 1, 0, LANES - 1)) and its mirror image
LaneAfter(side) ==
  IF side = "left" THEN clamp(playerLane - 1, 0, LANES - 1)
  ELSE clamp(playerLane + 1, 0, LANES - 1)

\* pointerdown on the canvas: the lane listener, then the restart listener
\* (both were registered by the mount render)
onPointerDown ==
  \E side \in Sides :
    /\ playerLane' = LaneAfter(side)
    /\ IF deadRef
       THEN /\ restart("mount", mountRender)
            /\ hist' = Before("tapRestart")
       ELSE /\ NoRestart
            /\ hist' = Before(side)
    /\ UNCHANGED <<best, storage, mountRender, lastSet, canvas>>
    /\ Commit(curFn)

\* keydown on the window (listener of the mount render)
\* r restarts whatever the state of the run
KeyRestartsAlways == TRUE

\* the condition under which the r key restarts: if (deadRef.current)
KeyRestarts == deadRef

onKey ==
  \E key \in Keys :
    /\ IF key = "ArrowLeft" \/ toLowerCase(key) = "a"
       THEN /\ playerLane' = LaneAfter("left")
            /\ NoRestart
            /\ hist' = Before("left")
       ELSE IF key = "ArrowRight" \/ toLowerCase(key) = "d"
       THEN /\ playerLane' = LaneAfter("right")
            /\ NoRestart
            /\ hist' = Before("right")
       ELSE IF toLowerCase(key) = "r"
       THEN IF KeyRestarts
            THEN /\ restart("mount", mountRender)
                 /\ hist' = Before("restart")
                 /\ UNCHANGED playerLane
            ELSE /\ NoRestart
                 /\ hist' = Before("r")
                 /\ UNCHANGED playerLane
       ELSE IF toLowerCase(key) = "p"
       THEN /\ running' = ~running
            /\ hist' = Before("pause")
            /\ UNCHANGED <<playerLane, obstaclesRef, speedRef,
                           spawnIntervalRef, spawnTimerRef, elapsedRef,
                           deadRef, score, rafQueue, rafRef, spawnedCount>>
       ELSE UNCHANGED <<playerLane, obstaclesRef, speedRef, spawnIntervalRef,
                        spawnTimerRef, elapsedRef, deadRef, score, running,
                        rafQueue, rafRef, spawnedCount, hist>>
    /\ UNCHANGED <<best, storage, mountRender, lastSet, canvas>>
    /\ Commit(curFn)

\* the Pause/Resume button: setRunning((r) => !r)
clickPause ==
  /\ running' = ~running
  /\ hist' = Before("pause")
  /\ UNCHANGED <<playerLane, score, best, storage, obstaclesRef, speedRef,
                 spawnIntervalRef, spawnTimerRef, elapsedRef, deadRef,
                 rafQueue, rafRef, mountRender, lastSet, canvas, spawnedCount>>
  /\ Commit(curFn)

\* the Restart button: restart of the current render, which schedules the
\* loop of the current render
clickRestart ==
  LET fn == IF curFn = "fresh" THEN "sched" ELSE curFn
  IN /\ restart(fn, Render)
     /\ lastSet' = IF curFn = "fresh" THEN lastSet \ {"sched"} ELSE lastSet
     /\ hist' = Before("clickRestart")
     /\ UNCHANGED <<playerLane, best, storage, mountRender, canvas>>
     /\ Commit(fn)

\* --------------------------------------------------------------- simulation
\* the speed growing by SPEED_GROWTH per minute instead of per second
SpeedPerMinute(e) == 1000 * BASE_SPEED + (SPEED_GROWTH * e) \div 60

\* BASE_SPEED + SPEED_GROWTH * elapsed, in milli-px/s for elapsed e in ms
Speed(e) == 1000 * BASE_SPEED + SPEED_GROWTH * e

\* the target interval without its lower bound
TargetSpawnUnbounded(e) == 1000 * BASE_SPAWN - SPAWN_DECAY * e

\* Math.max(MIN_SPAWN, BASE_SPAWN - SPAWN_DECAY * elapsed), in microsec
TargetSpawn(e) == MaxOf(1000 * MIN_SPAWN, 1000 * BASE_SPAWN - SPAWN_DECAY * e)

\* spawnInterval * 0.98 + targetSpawn * 0.02, rounded down to a microsec
Smooth(si, target) == (49 * si + target) \div 50

\* the frame delta without its cap
FrameDtUncapped(fn, since) == IF fn \in lastSet THEN since ELSE 0

\* Math.min(0.05, (now - last) / 1000) with last = loop._last || now
FrameDt(fn, since) == IF fn \in lastSet THEN MinOf(DT_CAP, since) ELSE 0

\* an obstacle pushed with its top edge, not its bottom edge, at the top
spawnObstacleAtTop(lane, h) ==
  [lane |-> lane, y |-> 0, w |-> ((CANVAS_W \div LANES) * 6 * PX) \div 10,
   h |-> h * PX, passed |-> FALSE]

\* the obstacle spawnObstacle pushes
spawnObstacle(lane, h) ==
  [lane |-> lane, y |-> 0 - h * PX, w |-> ((CANVAS_W \div LANES) * 6 * PX) \div 10,
   h |-> h * PX, passed |-> FALSE]

\* one obstacle in the forEach: move it, then set passed at the player line
Advance(o, speed, dt) ==
  LET y1 == o.y + speed * dt
  IN [o EXCEPT !.y = y1,
               !.passed = IF ~o.passed /\ y1 + o.h >= PLAYER_Y * PX
                          THEN TRUE ELSE o.passed]

\* a filter that keeps an obstacle for one more height below the canvas
OnScreenTwice(o) == o.y < CANVAS_H * PX + 2 * o.h

\* the filter that removes off-screen obstacles keeps o
OnScreen(o) == o.y < CANVAS_H * PX + o.h

\* the overlap test of the collision check
Overlap(o) ==
  LET playerTop == (PLAYER_Y - PLAYER_R) * PX
      playerBottom == (PLAYER_Y + PLAYER_R) * PX
      obstacleTop == o.y
      obstacleBottom == o.y + o.h
  IN ~(playerBottom < obstacleTop \/ playerTop > obstacleBottom)

\* the collision loop finds an obstacle in lane that overlaps the player
Collides(obs, lane) ==
  \E i \in 1 .. Len(obs) : obs[i].lane = lane /\ Overlap(obs[i])

\* the overlay draw puts over the HUD
Overlay(dead, run) ==
  IF dead THEN "gameover" ELSE IF ~run THEN "paused" ELSE "none"

\* draw(ctx) of the render that closes over cl; deadRef is read live
draw(cl, dead) ==
  [score |-> cl.score, best |-> cl.best, lane |-> cl.playerLane,
   overlay |-> Overlay(dead, cl.running)]

\* the guard without the test of deadRef
SkipsWhenPausedOnly(cl) == ~cl.running

\* the guard of loop: skip the simulation
Skips(cl) == ~cl.running \/ deadRef

\* ---------------------------------------------------------------- the loop
\* one frame: the browser takes the pending callback and calls loop(now).
\* limit bounds the elapsed time of a run, lanes and heights are the values
\* spawnObstacle may draw, gaps the times since the previous frame.
loop(limit, lanes, heights, gaps) ==
  /\ rafQueue # <<>>
  /\ LET cb == Head(rafQueue)
         cl == cb.cl
         q == Tail(rafQueue)
     IN /\ rafQueue' = requestAnimationFrame(q, cb.fn, cl)
        /\ rafRef' = FreeHandle(q, 1)
        /\ IF Skips(cl)
           THEN /\ canvas' = draw(cl, deadRef)
                /\ hist' = Before("skip")
                /\ UNCHANGED <<running, playerLane, score, best, storage,
                               obstaclesRef, speedRef, spawnTimerRef,
                               spawnIntervalRef, elapsedRef, deadRef,
                               mountRender, curFn, lastSet, spawnedCount>>
           ELSE \E dt \in {FrameDt(cb.fn, since) : since \in gaps} :
                  LET e1 == elapsedRef + dt
                      speed == Speed(e1)
                      si1 == Smooth(spawnIntervalRef, TargetSpawn(e1))
                      t1 == spawnTimerRef + dt
                      spawn == 1000 * t1 >= si1
                  IN /\ e1 <= limit
                     /\ lastSet' = lastSet \cup {cb.fn}
                     /\ elapsedRef' = e1
                     /\ speedRef' = speed
                     /\ spawnIntervalRef' = si1
                     /\ spawnTimerRef' = IF spawn THEN 0 ELSE t1
                     /\ spawnedCount' = spawnedCount + (IF spawn THEN 1 ELSE 0)
                     /\ \E born \in IF spawn
                                    THEN {<<spawnObstacle(lane, h)>> :
                                            lane \in lanes, h \in heights}
                                    ELSE {<<>>} :
                          LET obs1 == obstaclesRef \o born
                              obs2 == [i \in 1 .. Len(obs1) |->
                                         Advance(obs1[i], speed, dt)]
                              flips == Cardinality({i \in 1 .. Len(obs1) :
                                         ~obs1[i].passed /\ obs2[i].passed})
                              obs3 == SelectSeq(obs2, OnScreen)
                          IN /\ obstaclesRef' = obs3
                             /\ score' = score + flips
                     /\ deadRef' = Collides(obstaclesRef', cl.playerLane)
                     /\ IF deadRef'
                        THEN /\ running' = FALSE
                             /\ best' = MathMax(cl.best, cl.score)
                             /\ storage' = String(best')
                        ELSE UNCHANGED <<running, best, storage>>
                     /\ canvas' = draw(cl, deadRef')
                     /\ hist' = Before("sim")
                     /\ UNCHANGED <<playerLane, mountRender>>
                     /\ Commit(curFn)

\* the player acts only late in a run (and while the run is dead)
Attentive == elapsedRef >= InputsFrom

\* ----------------------------------------------------------- specifications
\* every input at every moment, over the first two seconds of a run
Next ==
  \/ loop(MaxElapsed, RandomLanes, Heights, Gaps)
  \/ onPointerDown
  \/ onKey
  \/ clickPause
  \/ clickRestart

Spec == Init /\ [][Next]_vars

\* whole runs up to the first collisions and the first scored obstacle, the
\* player acting once the first obstacle is close
NextEndgame ==
  \/ loop(MaxElapsedEndgame, RandomLanes, EndgameHeights, Gaps)
  \/ Attentive /\ onPointerDown
  \/ Attentive /\ onKey
  \/ Attentive /\ clickPause
  \/ Attentive /\ clickRestart

SpecEndgame == Init /\ [][NextEndgame]_vars

\* ten seconds without any input and without an obstacle in the player's lane
ScenarioLanes == RandomLanes \ {1}

NextScenario == loop(MaxElapsedScenario, ScenarioLanes, Heights, Gaps)

SpecScenario == Init /\ [][NextScenario]_vars

\* frames of different lengths, with restarts by the button in between
NextFrames ==
  \/ loop(MaxElapsedFrames, RandomLanes, EndgameHeights, FineGaps)
  \/ clickRestart

SpecFrames == Init /\ [][NextFrames]_vars

\* the frames above, from any stored best score
SpecStored == InitWith(StoredValues) /\ [][NextFrames]_vars

\* a long uninterrupted run of the player who stays in the middle lane
NextLong == loop(MaxElapsedLong, ScenarioLanes, EndgameHeights, Gaps)

SpecLong == Init /\ [][NextLong]_vars

\* -------------------------------------------------------------------- claims
\* the last step was a frame of the loop
Ticked == hist.ev \in {"sim", "skip"}
\* the events that call restart: r while dead, a tap while dead, the button
RestartEvents == {"restart", "tapRestart", "clickRestart"}
\* the last step was a restart
Restarted == hist.ev \in RestartEvents
\* the loop ran in the Running state: running flag set, run not dead
RunningTick == Ticked /\ hist.running /\ ~hist.dead
\* the loop ran in the Paused state
PausedTick == Ticked /\ ~hist.running /\ ~hist.dead

\* the values every simulation step writes
simVars == <<elapsedRef, speedRef, spawnIntervalRef, spawnTimerRef,
             obstaclesRef>>

\* C1: in every running tick the run becomes dead if and only if, after the
\* obstacles were moved and the off-screen ones removed, an obstacle in the
\* player's current lane overlaps the player's vertical range; an obstacle in
\* another lane never causes death, whatever lane changes came before.
C1_DeadIffOverlapInCurrentLane ==
  RunningTick => (deadRef <=> Collides(obstaclesRef, playerLane))

\* C2: best changes exactly when a run ends: the tick that detects the
\* collision sets best to max(best before the tick, the run's score) and
\* writes that value to storage; no other tick and no input changes best.
C2_BestExactlyAtDeath ==
  IF Ticked /\ ~hist.dead /\ deadRef
  THEN best = MaxOf(hist.best, score) /\ storage = String(best)
  ELSE best = hist.best

\* C3: best, in memory and as persisted, never decreases over any sequence
\* of ticks, lane changes, pause toggles, deaths and restarts.
C3_BestNeverDecreases ==
  [][best' >= best /\ InitialBest(storage') >= InitialBest(storage)]_vars

\* C4: after any sequence of lane-change inputs, in any game state, the
\* player's lane is an integer in [0, LANES-1]; a decrement at lane 0 and an
\* increment at lane LANES-1 leave it unchanged.
C4_LaneInRange ==
  /\ playerLane \in 0 .. (LANES - 1)
  /\ hist.ev = "left" /\ hist.lane = 0 => playerLane = 0
  /\ hist.ev = "right" /\ hist.lane = LANES - 1 => playerLane = LANES - 1

\* C4 witness: a decrement arrived at lane 0 and the lane stayed 0
C4_Witness == hist.ev = "left" /\ hist.lane = 0 /\ playerLane = 0

\* C5: while the game is paused (running flag false, run not dead) a frame
\* skips the simulation: elapsed time, speed, spawn interval, spawn timer,
\* obstacles, score, dead flag and best are unchanged by every such tick.
C5_PausedTickSkips ==
  [][(hist'.ev \in {"sim", "skip"} /\ ~running /\ ~deadRef)
       => UNCHANGED <<simVars, score, deadRef, best>>]_vars

\* C6: once a run is dead it stays dead until a restart: every tick in the
\* dead state leaves elapsed time, speed, spawn interval, spawn timer,
\* obstacles, score and best unchanged, and neither lane changes nor pause
\* toggles make the simulation advance again.
C6_DeadUntilRestart ==
  [][(deadRef /\ hist'.ev \notin RestartEvents)
       => deadRef' /\ UNCHANGED <<simVars, score, best>>]_vars

\* C6 witness: the run is dead, pause was toggled after the death (the running
\* flag is set again) and a frame has run in that state
C6_Witness == deadRef /\ hist.dead /\ hist.ev = "skip" /\ running

\* C7: restart, from any state, leaves no obstacles, speed = BASE_SPEED, spawn
\* interval = BASE_SPAWN, spawn timer = 0, elapsed time = 0, dead flag false,
\* score = 0 and running flag true, and keeps best; the first tick after the
\* restart simulates from these values.
C7_RestartResetsAndRuns ==
  [][/\ hist'.ev \in RestartEvents
          => /\ obstaclesRef' = <<>>
             /\ speedRef' = 1000 * BASE_SPEED
             /\ spawnIntervalRef' = 1000 * BASE_SPAWN
             /\ spawnTimerRef' = 0
             /\ elapsedRef' = 0
             /\ ~deadRef'
             /\ score' = 0
             /\ running'
             /\ best' = best
     /\ Restarted /\ hist'.ev \in {"sim", "skip"} => hist'.ev = "sim"]_vars

\* the obstacles on screen whose lower edge has not reached the player line
Above == {i \in 1 .. Len(obstaclesRef) :
            obstaclesRef[i].y + obstaclesRef[i].h < PLAYER_Y * PX}

\* C8: the passed flag of an obstacle goes from false to true at most once,
\* only in a running tick in which its lower edge is at or beyond PLAYER_Y,
\* and never back; the score grows by one at each such transition and at no
\* other time, so the score is the number of obstacles scored in the run.
C8_ScoredOnceInRunningTicks ==
  /\ \A i \in 1 .. Len(obstaclesRef) : obstaclesRef[i].passed <=> i \notin Above
  /\ score = spawnedCount - Cardinality(Above)
  /\ score # hist.score => RunningTick \/ (Restarted /\ score = 0)

\* C9: every frame the loop renders shows the state after that frame's
\* update: the score and best drawn are the current score and best, the
\* highlighted lane and the player marker are at the player's lane, and the
\* pause overlay is drawn exactly when the game is paused and not dead.
C9_FrameShowsCurrentState ==
  Ticked => /\ canvas.score = score
            /\ canvas.best = best
            /\ canvas.lane = playerLane
            /\ canvas.overlay = "paused" <=> (~running /\ ~deadRef)

\* ten seconds of simulated time (ms)
TenSeconds == 10 * 1000

RunningTickStep ==
  \/ hist'.ev = "sim"
  \/ hist'.ev = "skip" /\ running /\ ~deadRef

C13_RestartOnlyWhenDead ==
  [][/\ hist'.ev = "r"
          => /\ ~deadRef
             /\ UNCHANGED <<running, playerLane, score, best, storage,
                            obstaclesRef, speedRef, spawnTimerRef,
                            spawnIntervalRef, elapsedRef, deadRef, rafRef,
                            rafQueue, canvas>>
     /\ hist'.ev \in {"restart", "tapRestart"}
          => /\ deadRef
             /\ obstaclesRef' = <<>>
             /\ speedRef' = 1000 * BASE_SPEED
             /\ spawnIntervalRef' = 1000 * BASE_SPAWN
             /\ spawnTimerRef' = 0
             /\ elapsedRef' = 0
             /\ ~deadRef'
             /\ score' = 0
             /\ running'
             /\ Len(rafQueue') = 1]_vars

\* C13 witness: r pressed in a dead run has restarted it
C13_Witness == hist.ev = "restart" /\ hist.dead /\ ~deadRef /\ running

\* C14: at startup the best score is the integer stored under neonlane_best,
\* and 0 when the key is absent or its value does not parse as an integer; so
\* the best score is always a number.
C14_BestIsANumber ==
  /\ best # NaN
  /\ hist.ev = "mount"
       => best = IF storage = NULL \/ parseInt(storage) = NaN
                 THEN 0 ELSE parseInt(storage)

\* C15: while the component is mounted every invocation of loop ends by
\* registering exactly one next frame, and restart cancels the pending
\* registration before it registers a new one; so there is always one pending
\* frame callback, never more, whatever restarts occur between frames, and it
\* is the one whose handle rafRef holds.
C15_OnePendingFrame ==
  /\ Len(rafQueue) = 1
  /\ rafQueue[1].id = rafRef

\* C15 witness: the Restart button replaced the pending callback by the loop
\* of a later render
C15_Witness ==
  /\ hist.ev = "clickRestart"
  /\ Len(rafQueue) = 1
  /\ rafQueue[1].fn = "sched"

\* C16: a restart resets the player: after a restart the lane index is its
\* initial value 1, whatever lane changes were made before.
C16_RestartResetsLane ==
  [][hist'.ev \in RestartEvents => playerLane' = 1]_vars

\* what a lane change and a pause toggle are said to leave alone
runState == <<obstaclesRef, score, best, speedRef, spawnIntervalRef,
              spawnTimerRef, elapsedRef, deadRef>>

\* the lane index moved by one lane at most
OneLaneAtMost == playerLane' - playerLane \in {0 - 1, 0, 1}

\* C17 as stated: a lane-change input (a key or a tap) changes only the lane
\* index, by at most one, and a pause toggle changes only the running flag;
\* in the running, paused and dead states alike neither changes the
\* obstacles, score, best score, speed, spawn interval, spawn timer, elapsed
\* time or dead flag.
C17_InputsLeaveTheRunAlone ==
  [][/\ hist'.ev \in {"left", "right", "tapRestart"}
          => OneLaneAtMost /\ UNCHANGED <<running, runState>>
     /\ hist'.ev = "pause"
          => running' = ~running /\ UNCHANGED <<playerLane, runState>>]_vars

\* C17 amended: the same, except that a tap on the play area while the run is
\* dead, besides moving the player by at most one lane, restarts the run.
C17_InputsLeaveTheRunAloneButTapWhenDead ==
  [][/\ hist'.ev \in {"left", "right"}
          => OneLaneAtMost /\ UNCHANGED <<running, runState>>
     /\ hist'.ev = "tapRestart"
          => OneLaneAtMost /\ deadRef /\ ~deadRef' /\ obstaclesRef' = <<>>
     /\ hist'.ev = "pause"
          => running' = ~running /\ UNCHANGED <<playerLane, runState>>]_vars

\* C17 witness: a lane key pressed in a dead run moved the player
C17_Witness ==
  /\ hist.ev \in {"left", "right"}
  /\ hist.dead
  /\ deadRef
  /\ playerLane # hist.lane

\* C18: after every running tick each active obstacle has y < CANVAS_H + h,
\* and every obstacle removed for leaving the screen had passed = true: the
\* obstacles that are gone are as many as the points scored for obstacles no
\* longer on screen, so none leaves the collection unscored.
C18_RemovedObstaclesWereScored ==
  /\ \A i \in 1 .. Len(obstaclesRef) :
       obstaclesRef[i].y < CANVAS_H * PX + obstaclesRef[i].h
  /\ spawnedCount - Len(obstaclesRef)
       = score - Cardinality({i \in 1 .. Len(obstaclesRef) :
                                obstaclesRef[i].passed})

\* C18 witness: a running tick after which obstacles have left the screen
C18_Witness ==
  /\ hist.ev = "sim"
  /\ spawnedCount > Len(obstaclesRef)
  /\ obstaclesRef # <<>>

\* C19: in a running tick the spawn timer grows by the frame delta and at most
\* one obstacle is created, exactly when the timer has reached the spawn
\* interval of this tick, which resets the timer to 0; the new obstacle has a
\* lane in 0 .. LANES-1, was put at y = -h (and has moved by this tick's
\* distance since) and has passed = false. Hence after every running tick the
\* spawn timer is below the spawn interval.
C19_SpawnWhenTimerReachesInterval ==
  [][RunningTickStep
       => LET dt  == elapsedRef' - elapsedRef
              t1  == spawnTimerRef + dt
              due == 1000 * t1 >= spawnIntervalRef'
              n   == Len(obstaclesRef')
          IN  /\ spawnTimerRef' = IF due THEN 0 ELSE t1
              /\ spawnedCount' = spawnedCount + (IF due THEN 1 ELSE 0)
              /\ n = Len(obstaclesRef) + (IF due THEN 1 ELSE 0)
              /\ due => /\ obstaclesRef'[n].lane \in 0 .. (LANES - 1)
                        /\ obstaclesRef'[n].y - speedRef' * dt
                             = 0 - obstaclesRef'[n].h
                        /\ ~obstaclesRef'[n].passed
              /\ 1000 * spawnTimerRef' < spawnIntervalRef']_vars

\* C19 witness: the running tick that created the second obstacle of a run
C19_Witness ==
  /\ hist.ev = "sim"
  /\ spawnTimerRef = 0
  /\ spawnedCount = 2
  /\ Len(obstaclesRef) = 2
  /\ obstaclesRef[2].y < 0

\* C20: the game is always in exactly one of Running, Paused and Dead: in
\* every reachable state, if the run is dead then the running flag is false.
C20_DeadImpliesNotRunning == deadRef => ~running

====
